---- MODULE Spec2Model ----
(***************************************************************************)
(* Model of the MZone backend (src/server.js): the account endpoints       *)
(* POST /auth/register, POST /auth/login, GET /auth/me, GET /user/profile, *)
(* and the payment endpoints POST /payment/initialize,                     *)
(* GET /payment/verify/:reference and POST /payment/webhook, over the      *)
(* Supabase tables `users` and `subscriptions` and the Paystack gateway.   *)
(*                                                                         *)
(* JavaScript strings that the code inspects (plan ids, discount codes,    *)
(* emails, names, passwords)                                               *)
(* are tuples of one-character strings, so that replace(), includes(),     *)
(* toUpperCase(), toLowerCase() and trim() are computed and not assumed.   *)
(* Strings that the code                                                   *)
(* only compares for equality (event types, gateway statuses, response     *)
(* messages) are TLA+ strings.                                             *)
(*                                                                         *)
(* Every handler is an async function: it runs without interruption up to  *)
(* its next `await`, and other requests run while it waits.  One action    *)
(* models one such stretch: an awaited call resolving (the store or the    *)
(* gateway acting), followed by the synchronous code up to the next await. *)
(***************************************************************************)
EXTENDS Integers, Sequences, FiniteSets, TLC

(***************************************************************************)
(* JavaScript values                                                       *)
(***************************************************************************)
\* null and undefined: distinct from every string (a string is a tuple of
\* one-character strings, and these hold one longer element).
Null == <<"null">>
Undefined == <<"undefined">>

IsString(v) == v /= Null /\ v /= Undefined

\* JavaScript truthiness of a string-or-nullish value: `if (discountCode)`.
Truthy(v) == IsString(v) /\ v /= <<>>

\* String.prototype.indexOf: the first position (from 1) of sub in s, 0 if none.
IndexOf(s, sub) ==
  LET hits == {i \in 1..(Len(s) - Len(sub) + 1) : SubSeq(s, i, i + Len(sub) - 1) = sub}
  IN  IF hits = {} THEN 0 ELSE CHOOSE i \in hits : \A j \in hits : i <= j

\* String.prototype.includes
Includes(s, sub) == IndexOf(s, sub) /= 0

\* String.prototype.replace with a string pattern: the first occurrence only.
Replace(s, sub, rep) ==
  LET i == IndexOf(s, sub)
  IN  IF i = 0 THEN s
      ELSE SubSeq(s, 1, i - 1) \o rep \o SubSeq(s, i + Len(sub), Len(s))

LowerLetters ==
  <<"a","b","c","d","e","f","g","h","i","j","k","l","m",
    "n","o","p","q","r","s","t","u","v","w","x","y","z">>
UpperLetters ==
  <<"A","B","C","D","E","F","G","H","I","J","K","L","M",
    "N","O","P","Q","R","S","T","U","V","W","X","Y","Z">>

UpperChar(c) ==
  IF \E i \in 1..Len(LowerLetters) : LowerLetters[i] = c
  THEN UpperLetters[CHOOSE i \in 1..Len(LowerLetters) : LowerLetters[i] = c]
  ELSE c

\* String.prototype.toUpperCase
ToUpperCase(s) == [i \in 1..Len(s) |-> UpperChar(s[i])]

LowerChar(c) ==
  IF \E i \in 1..Len(UpperLetters) : UpperLetters[i] = c
  THEN LowerLetters[CHOOSE i \in 1..Len(UpperLetters) : UpperLetters[i] = c]
  ELSE c

\* String.prototype.toLowerCase
ToLowerCase(s) == [i \in 1..Len(s) |-> LowerChar(s[i])]

\* The white space of the regular expression class \s and of trim().
IsSpace(c) == c \in {" ", "\t", "\n"}

\* String.prototype.trim: white space taken off both ends.
Trim(s) ==
  LET kept == {i \in 1..Len(s) : ~IsSpace(s[i])}
  IN  IF kept = {} THEN <<>>
      ELSE SubSeq(s, CHOOSE i \in kept : \A j \in kept : i <= j,
                     CHOOSE i \in kept : \A j \in kept : j <= i)

IsLetter(c) ==
  \E i \in 1..Len(LowerLetters) : LowerLetters[i] = c \/ UpperLetters[i] = c

IsDigit(c) == c \in {"0","1","2","3","4","5","6","7","8","9"}

\* validatePassword: at least 10 characters, with a letter and a digit.
validatePassword(password) ==
  IF ~Truthy(password) \/ Len(password) < 10
  THEN [valid |-> FALSE, message |-> "Password must be at least 10 characters long"]
  ELSE IF ~(\E i \in 1..Len(password) : IsLetter(password[i]))
          \/ ~(\E i \in 1..Len(password) : IsDigit(password[i]))
  THEN [valid |-> FALSE, message |-> "Password must contain both letters and numbers"]
  ELSE [valid |-> TRUE, message |-> ""]

\* validateEmail: /^[^\s@]+@[^\s@]+\.[^\s@]+$/ -- no white space, one @ with
\* text before it, and after it a dot with text on both sides.  (An absent
\* email is tested as the text 'undefined' and fails.)
validateEmail(email) ==
  /\ IsString(email)
  /\ \A i \in 1..Len(email) : ~IsSpace(email[i])
  /\ \E a \in 2..Len(email) :
       /\ email[a] = "@"
       /\ \A i \in 1..Len(email) : email[i] = "@" => i = a
       /\ \E d \in (a + 2)..(Len(email) - 1) : email[d] = "."

\* validateFullName: name && name.trim().length >= 2
validateFullName(name) == Truthy(name) /\ Len(Trim(name)) >= 2

\* email.toLowerCase().trim(): the email as the users table is asked for it
\* and as it is stored.
NormalizeEmail(email) == Trim(ToLowerCase(email))

\* bcrypt.hash(password, 10) and bcrypt.compare(password, hash): the hash is
\* a text other than the password that only this password matches.
BcryptHash(password) == <<"$2b$10$">> \o password
BcryptCompare(password, hash) == hash = BcryptHash(password)

\* A yearly price of twelve monthly prices, without the 10.8 multiplier.
RoundTimes10p8_Twelve(x) == x * 12

\* Math.round(x * 10.8) for a non-negative integer x.
RoundTimes10p8(x) == (x * 108 + 5) \div 10

(***************************************************************************)
(* The catalog: BASE_PRICES and DISCOUNT_CODES                             *)
(***************************************************************************)
standard_monthly == <<"s","t","a","n","d","a","r","d","_","m","o","n","t","h","l","y">>
standard_yearly == <<"s","t","a","n","d","a","r","d","_","y","e","a","r","l","y">>
pro_monthly == <<"p","r","o","_","m","o","n","t","h","l","y">>
pro_yearly == <<"p","r","o","_","y","e","a","r","l","y">>

DiscountedSuffix == <<"_","d","i","s","c","o","u","n","t","e","d">>
StandardWord == <<"s","t","a","n","d","a","r","d">>
ProWord == <<"p","r","o">>
YearlyWord == <<"y","e","a","r","l","y">>

Code_DX9Q == <<"D","X","9","Q","-","7","M","2","A","-","K","8","P","4">>
Code_R5TQ == <<"R","5","T","Q","-","Z","9","1","L","-","A","7","X","K">>
Code_MP8A == <<"M","P","8","A","-","Q","X","4","7","-","L","9","T","Z">>
Code_K2Z9 == <<"K","2","Z","9","-","P","A","X","6","-","M","7","Q","F">>

\* Names every object literal inherits from Object.prototype: obj[name] is a
\* function or an object (truthy) although the literal does not list name.
ObjectPrototypeKeys ==
  { <<"c","o","n","s","t","r","u","c","t","o","r">>,
    <<"t","o","S","t","r","i","n","g">>,
    <<"_","_","p","r","o","t","o","_","_">> }

\* The value of an inherited property: truthy, and not a number.
InheritedValue == -1

\* BASE_PRICES[key]: the price in kobo, an inherited value, or 0 for undefined.
BASE_PRICES(key) ==
  CASE key = standard_monthly -> 1600000
    [] key = standard_yearly  -> 17280000
    [] key = pro_monthly      -> 2200000
    [] key = pro_yearly       -> 23760000
    [] key \in ObjectPrototypeKeys -> InheritedValue
    [] OTHER -> 0

\* DISCOUNT_CODES[code], as [found, standard, standardOnly, pro, proOnly]; a
\* field the entry does not have is 0 (a price) or FALSE (a flag): undefined.
NoDiscount ==
  [found |-> FALSE, standard |-> 0, standardOnly |-> FALSE, pro |-> 0, proOnly |-> FALSE]

\* The discount table with overrides above the monthly base prices.
DISCOUNT_CODES_AboveBase(code) ==
  CASE code \in {Code_DX9Q, Code_R5TQ} ->
         [found |-> TRUE, standard |-> 7000000, standardOnly |-> TRUE,
          pro |-> 0, proOnly |-> FALSE]
    [] code \in {Code_MP8A, Code_K2Z9} ->
         [found |-> TRUE, standard |-> 0, standardOnly |-> FALSE,
          pro |-> 11000000, proOnly |-> TRUE]
    [] OTHER -> NoDiscount

DISCOUNT_CODES(code) ==
  CASE code \in {Code_DX9Q, Code_R5TQ} ->
         [found |-> TRUE, standard |-> 700000, standardOnly |-> TRUE,
          pro |-> 0, proOnly |-> FALSE]
    [] code \in {Code_MP8A, Code_K2Z9} ->
         [found |-> TRUE, standard |-> 0, standardOnly |-> FALSE,
          pro |-> 1100000, proOnly |-> TRUE]
    [] code \in ObjectPrototypeKeys ->
         [found |-> TRUE, standard |-> 0, standardOnly |-> FALSE,
          pro |-> 0, proOnly |-> FALSE]
    [] OTHER -> NoDiscount

(***************************************************************************)
(* The pricing computation of POST /payment/initialize                     *)
(***************************************************************************)
\* plan.replace('_discounted', '')
PlanKey(plan) == Replace(plan, DiscountedSuffix, <<>>)

\* The discount branch without the standardOnly / proOnly tests: a code found
\* in the catalog applies to a plan of either tier.
ApplyDiscount_AnyTier(plan, discountCode) ==
  LET base == BASE_PRICES(PlanKey(plan))
      code == ToUpperCase(discountCode)
      discount == DISCOUNT_CODES(code)
      monthly == IF discount.standardOnly THEN discount.standard ELSE discount.pro
      hit == /\ Truthy(discountCode)
             /\ discount.found
             /\ Includes(plan, StandardWord) \/ Includes(plan, ProWord)
  IN  IF hit
      THEN [amount |-> IF Includes(plan, YearlyWord)
                       THEN RoundTimes10p8(monthly) ELSE monthly,
            appliedDiscount |-> code]
      ELSE [amount |-> base, appliedDiscount |-> Null]

\* The discount branch: the amount and the applied code for a plan whose key
\* is priced, given the request's discountCode.
ApplyDiscount(plan, discountCode) ==
  LET base == BASE_PRICES(PlanKey(plan))
      code == ToUpperCase(discountCode)
      discount == DISCOUNT_CODES(code)
      monthly == IF Includes(plan, StandardWord) /\ discount.standardOnly
                 THEN discount.standard ELSE discount.pro
      hit == /\ Truthy(discountCode)
             /\ discount.found
             /\ \/ Includes(plan, StandardWord) /\ discount.standardOnly
                \/ Includes(plan, ProWord) /\ discount.proOnly
  IN  IF hit
      THEN [amount |-> IF Includes(plan, YearlyWord)
                       THEN RoundTimes10p8(monthly) ELSE monthly,
            appliedDiscount |-> code]
      ELSE [amount |-> base, appliedDiscount |-> Null]

\* Lines 291-318 as a whole: "throw" when plan is no string (plan.replace is
\* a TypeError), "invalid" when BASE_PRICES[planKey] is falsy, else "priced".
Pricing(plan, discountCode) ==
  IF ~IsString(plan)
  THEN [outcome |-> "throw", amount |-> 0, appliedDiscount |-> Null, originalAmount |-> 0]
  ELSE IF BASE_PRICES(PlanKey(plan)) = 0
  THEN [outcome |-> "invalid", amount |-> 0, appliedDiscount |-> Null, originalAmount |-> 0]
  ELSE [outcome |-> "priced",
        amount |-> ApplyDiscount(plan, discountCode).amount,
        appliedDiscount |-> ApplyDiscount(plan, discountCode).appliedDiscount,
        originalAmount |-> BASE_PRICES(PlanKey(plan))]

(***************************************************************************)
(* Dates: new Date(), setFullYear and setMonth                             *)
(***************************************************************************)
NoDate == [y |-> 0, m |-> 0, d |-> 0]

IsLeap(y) == (y % 4 = 0 /\ y % 100 /= 0) \/ y % 400 = 0

DaysInMonth(y, m) ==
  CASE m = 2 -> IF IsLeap(y) THEN 29 ELSE 28
    [] m \in {4, 6, 9, 11} -> 30
    [] OTHER -> 31

\* The date a Date object holds after its fields were set to year y, month m
\* (1..13) and day d (1..31): a month past December carries into the year, a
\* day past the end of the month carries into the next month.
NormalizeDate(y, m, d) ==
  LET y1 == IF m > 12 THEN y + 1 ELSE y
      m1 == IF m > 12 THEN m - 12 ELSE m
  IN  IF d <= DaysInMonth(y1, m1) THEN [y |-> y1, m |-> m1, d |-> d]
      ELSE IF m1 = 12 THEN [y |-> y1 + 1, m |-> 1, d |-> d - DaysInMonth(y1, m1)]
      ELSE [y |-> y1, m |-> m1 + 1, d |-> d - DaysInMonth(y1, m1)]

\* endDate.setFullYear(endDate.getFullYear() + 1)
SetFullYearPlus1(t) == NormalizeDate(t.y + 1, t.m, t.d)

\* The next month with the day held back to the last day that month has.
SetMonthPlus1_Clamped(t) ==
  LET y1 == IF t.m = 12 THEN t.y + 1 ELSE t.y
      m1 == IF t.m = 12 THEN 1 ELSE t.m + 1
  IN  [y |-> y1, m |-> m1,
       d |-> IF t.d <= DaysInMonth(y1, m1) THEN t.d ELSE DaysInMonth(y1, m1)]

\* endDate.setMonth(endDate.getMonth() + 1)
SetMonthPlus1(t) == NormalizeDate(t.y, t.m + 1, t.d)

\* Lines 386-391 and 443-448: the end date for a plan string, from today.
EndDate(plan, today) ==
  IF Includes(plan, YearlyWord) THEN SetFullYearPlus1(today) ELSE SetMonthPlus1(today)

\* The days on which the model's requests happen, in order.
Calendar ==
  << [y |-> 2024, m |-> 1, d |-> 31], [y |-> 2024, m |-> 2, d |-> 29] >>

(***************************************************************************)
(* State                                                                   *)
(***************************************************************************)
\* Most requests the model admits, each in a slot of its own.
MaxRequests == 2

Slots == 1..MaxRequests

VARIABLES
  users,          \* table users: row i is the user with id i
  subscriptions,  \* table subscriptions, in order of creation
  paystack,       \* the gateway's transactions: transaction r has reference r
  clock,          \* index into Calendar: today
  req             \* req[s]: the request in slot s, its position and locals

vars == <<users, subscriptions, paystack, clock, req>>

Today == Calendar[clock]

\* data.metadata of a gateway record; present = FALSE when there is none.
NoMetadata ==
  [present |-> FALSE, userId |-> 0, plan |-> Undefined, discountCode |-> Undefined,
   originalAmount |-> 0, finalAmount |-> 0]

\* A gateway record (response.data.data, event.data); present = FALSE when
\* the payload has none.
NoData ==
  [present |-> FALSE, status |-> "", amount |-> 0, reference |-> 0,
   metadata |-> NoMetadata]

NoResponse == [status |-> 0, message |-> ""]

\* user.subscription of the profile response; present = FALSE when it is null.
NoSubscription ==
  [present |-> FALSE, plan |-> Undefined, status |-> "", endDate |-> NoDate]

\* A slot no request has taken yet.
IdleRequest ==
  [op |-> "none", pc |-> "idle",
   userId |-> 0, plan |-> Undefined, discountCode |-> Undefined,
   reference |-> 0, event |-> "", data |-> NoData,
   startDate |-> NoDate, endDate |-> NoDate,
   fullName |-> Undefined, email |-> Undefined, password |-> Undefined,
   hashedPassword |-> Undefined, queryDate |-> NoDate, subscription |-> NoSubscription,
   called |-> FALSE, updated |-> FALSE, inserted |-> FALSE, queried |-> FALSE,
   during |-> {}, res |-> NoResponse]

\* The requests in flight: started and not yet answered.
InFlight == {s \in Slots : req[s].pc \notin {"idle", "done"}}

\* Slots are taken in order.
Free(s) == req[s].pc = "idle" /\ \A t \in 1..(s - 1) : req[t].pc /= "idle"

\* The Transaction Intent sent as metadata, lines 327-334.
IntentMetadata(uid, plan, p) ==
  [present |-> TRUE, userId |-> uid, plan |-> plan, discountCode |-> p.appliedDiscount,
   originalAmount |-> p.originalAmount, finalAmount |-> p.amount]

\* The transaction the gateway opens for an initialize call, lines 321-336.
NewTransaction(amount, metadata) ==
  [amount |-> amount, metadata |-> metadata, status |-> "pending"]

\* The database as the requests of the model find it: registered users, none
\* subscribed, and no subscription yet.
RegisteredUsers ==
  << [full_name |-> <<"A","d","a">>, email |-> <<"a","d","a","@","x",".","i","o">>,
      password |-> BcryptHash(<<"a","d","a","s","-","p","a","s","s","-","0","1">>),
      is_subscribed |-> FALSE],
     [full_name |-> <<"B","o","b">>, email |-> <<"b","o","b","@","x",".","i","o">>,
      password |-> BcryptHash(<<"b","o","b","s","-","p","a","s","s","-","0","2">>),
      is_subscribed |-> FALSE] >>

\* Purchases started before the model's requests: <<user, plan, discountCode>>
\* as sent to POST /payment/initialize.
Purchases ==
  << <<1, pro_yearly, <<"m","p","8","a","-","q","x","4","7","-","l","9","t","z">> >> >>

\* The gateway as the requests of the model find it: one pending transaction
\* for each purchase, as POST /payment/initialize opened it.
OpenTransactions ==
  [i \in DOMAIN Purchases |->
     LET uid == Purchases[i][1]
         plan == Purchases[i][2]
         p == Pricing(plan, Purchases[i][3])
     IN  NewTransaction(p.amount, IntentMetadata(uid, plan, p))]

Init ==
  /\ users = RegisteredUsers
  /\ subscriptions = <<>>
  /\ paystack = OpenTransactions
  /\ clock = 1
  /\ req = [s \in Slots |-> IdleRequest]

\* res.status(status).json({ success, message }) / res.send(message), ending the request.
Respond(r, status, message) ==
  [r EXCEPT !.pc = "done", !.res = [status |-> status, message |-> message]]

(***************************************************************************)
(* The store and the gateway                                               *)
(***************************************************************************)
\* supabase.from('users').select('*').eq('id', id).single(): a row exists.
UserFound(id) == id \in DOMAIN users

\* supabase.from('users').update({ is_subscribed: true }).eq('id', id)
UpdateIsSubscribed(table, id) ==
  [i \in DOMAIN table |->
     IF i = id THEN [table[i] EXCEPT !.is_subscribed = TRUE] ELSE table[i]]

\* The row with its amount looked up in the catalog, not taken from the
\* gateway record.
SubscriptionRow_CatalogAmount(r) ==
  [user_id |-> r.data.metadata.userId,
   plan |-> r.data.metadata.plan,
   amount |-> BASE_PRICES(PlanKey(r.data.metadata.plan)),
   reference |-> r.reference,
   discount_code |-> r.data.metadata.discountCode,
   status |-> "active",
   start_date |-> r.startDate,
   end_date |-> r.endDate]

\* The row both reconciliation paths build for supabase.from('subscriptions').insert.
SubscriptionRow(r) ==
  [user_id |-> r.data.metadata.userId,
   plan |-> r.data.metadata.plan,
   amount |-> r.data.amount,
   reference |-> r.reference,
   discount_code |-> r.data.metadata.discountCode,
   status |-> "active",
   start_date |-> r.startDate,
   end_date |-> r.endDate]

\* supabase.from('subscriptions').insert([row]): the code names no conflict
\* target and reads no row before it, so the table takes the row as it is.
InsertSubscription(table, row) == Append(table, row)

\* The record the gateway reports for transaction ref (verify's
\* response.data.data, a webhook's event.data).
GatewayData(ref) ==
  [present |-> TRUE, status |-> paystack[ref].status, amount |-> paystack[ref].amount,
   reference |-> ref, metadata |-> paystack[ref].metadata]

\* The customer pays, or the charge fails: the gateway settles a transaction.
PaystackCharge(ref, outcome) ==
  /\ ref \in DOMAIN paystack
  /\ paystack[ref].status = "pending"
  /\ paystack' = [paystack EXCEPT ![ref].status = outcome]
  /\ UNCHANGED <<users, subscriptions, clock, req>>

\* Time passes.
Tick ==
  /\ clock < Len(Calendar)
  /\ clock' = clock + 1
  /\ UNCHANGED <<users, subscriptions, paystack, req>>

(***************************************************************************)
(* POST /payment/initialize                                                *)
(***************************************************************************)
\* The request arrives with a valid token for uid; the handler awaits the
\* user lookup.
InitializeStart(s, uid, plan, discountCode) ==
  /\ Free(s)
  /\ req' = [req EXCEPT ![s] =
       [IdleRequest EXCEPT !.op = "initialize", !.pc = "user", !.userId = uid,
                           !.plan = plan, !.discountCode = discountCode,
                           !.during = InFlight]]
  /\ UNCHANGED <<users, subscriptions, paystack, clock>>

\* The user lookup resolves (ok: without error); then pricing, and the
\* gateway request is sent.
InitializeUser(s, ok) ==
  /\ req[s].op = "initialize" /\ req[s].pc = "user"
  /\ LET r == req[s]
         p == Pricing(r.plan, r.discountCode)
     IN  req' = [req EXCEPT ![s] =
           IF ~(ok /\ UserFound(r.userId)) THEN Respond(r, 404, "User not found")
           ELSE IF p.outcome = "throw" THEN Respond(r, 500, "Payment initialization failed")
           ELSE IF p.outcome = "invalid" THEN Respond(r, 400, "Invalid plan")
           ELSE [r EXCEPT !.pc = "paystack", !.called = TRUE,
                          !.data = [NoData EXCEPT !.amount = p.amount,
                                      !.metadata = IntentMetadata(r.userId, r.plan, p)]]]
  /\ UNCHANGED <<users, subscriptions, paystack, clock>>

\* The gateway answers the initialize call: with a new transaction and its
\* reference (ok), or with a failure.
InitializePaystack(s, ok) ==
  /\ req[s].op = "initialize" /\ req[s].pc = "paystack"
  /\ LET r == req[s]
     IN  IF ok
         THEN /\ paystack' = Append(paystack, NewTransaction(r.data.amount, r.data.metadata))
              /\ req' = [req EXCEPT ![s] =
                   Respond([r EXCEPT !.reference = Len(paystack) + 1], 200, "")]
         ELSE /\ paystack' = paystack
              /\ req' = [req EXCEPT ![s] = Respond(r, 500, "Payment initialization failed")]
  /\ UNCHANGED <<users, subscriptions, clock>>

(***************************************************************************)
(* GET /payment/verify/:reference                                          *)
(***************************************************************************)
\* The request arrives with a valid token; the handler awaits the gateway.
VerifyStart(s, ref) ==
  /\ Free(s)
  /\ req' = [req EXCEPT ![s] =
       [IdleRequest EXCEPT !.op = "verify", !.pc = "paystack", !.reference = ref,
                           !.during = InFlight]]
  /\ UNCHANGED <<users, subscriptions, paystack, clock>>

\* The verify path without the test of data.status: any record the gateway
\* reports is reconciled.
VerifyPaystack_AnyStatus(s, ok) ==
  /\ req[s].op = "verify" /\ req[s].pc = "paystack"
  /\ LET r == req[s]
         known == ok /\ r.reference \in DOMAIN paystack
         data == IF known THEN GatewayData(r.reference) ELSE NoData
     IN  req' = [req EXCEPT ![s] =
           IF ~known THEN Respond(r, 500, "Verification failed")
           ELSE IF ~data.metadata.present
                THEN Respond([r EXCEPT !.data = data], 500, "Verification failed")
           ELSE [r EXCEPT !.data = data, !.pc = "update"]]
  /\ UNCHANGED <<users, subscriptions, paystack, clock>>

\* The gateway answers the verify call (ok: with a 2xx response; axios throws
\* otherwise, as for a reference the gateway does not know).  On success the
\* handler sends the users update.
VerifyPaystack(s, ok) ==
  /\ req[s].op = "verify" /\ req[s].pc = "paystack"
  /\ LET r == req[s]
         known == ok /\ r.reference \in DOMAIN paystack
         data == IF known THEN GatewayData(r.reference) ELSE NoData
     IN  req' = [req EXCEPT ![s] =
           IF ~known THEN Respond(r, 500, "Verification failed")
           ELSE IF data.status /= "success"
                THEN Respond([r EXCEPT !.data = data], 400, "Payment verification failed")
           ELSE IF ~data.metadata.present
                THEN Respond([r EXCEPT !.data = data], 500, "Verification failed")
           ELSE [r EXCEPT !.data = data, !.pc = "update"]]
  /\ UNCHANGED <<users, subscriptions, paystack, clock>>

\* The users update resolves (ok: applied; else the store returned an error,
\* which the handler does not read); then the end date, and the insert is sent.
VerifyUpdate(s, ok) ==
  /\ req[s].op = "verify" /\ req[s].pc = "update"
  /\ LET r == req[s]
         id == r.data.metadata.userId
         plan == r.data.metadata.plan
         r1 == [r EXCEPT !.updated = ok /\ UserFound(id)]
     IN  /\ users' = IF ok THEN UpdateIsSubscribed(users, id) ELSE users
         /\ req' = [req EXCEPT ![s] =
              IF ~IsString(plan) THEN Respond(r1, 500, "Verification failed")
              ELSE [r1 EXCEPT !.pc = "insert", !.startDate = Today,
                              !.endDate = EndDate(plan, Today)]]
  /\ UNCHANGED <<subscriptions, paystack, clock>>

\* The subscriptions insert resolves (ok: applied; else an error the handler
\* does not read); the handler answers.
VerifyInsert(s, ok) ==
  /\ req[s].op = "verify" /\ req[s].pc = "insert"
  /\ LET r == req[s]
     IN  /\ subscriptions' =
              IF ok THEN InsertSubscription(subscriptions, SubscriptionRow(r))
              ELSE subscriptions
         /\ req' = [req EXCEPT ![s] =
              Respond([r EXCEPT !.inserted = ok], 200, "Payment verified")]
  /\ UNCHANGED <<users, paystack, clock>>

(***************************************************************************)
(* POST /payment/webhook                                                   *)
(***************************************************************************)
\* The webhook without the test of event.event: every event is reconciled.
WebhookStart_AnyEvent(s, event) ==
  /\ Free(s)
  /\ LET r == [IdleRequest EXCEPT !.op = "webhook", !.event = event.event,
                                  !.data = event.data,
                                  !.reference = event.data.reference,
                                  !.during = InFlight]
     IN  req' = [req EXCEPT ![s] =
           IF ~event.data.present \/ ~event.data.metadata.present
           THEN Respond(r, 500, "Error")
           ELSE [r EXCEPT !.pc = "update"]]
  /\ UNCHANGED <<users, subscriptions, paystack, clock>>

\* An event arrives (the endpoint takes any body: no token, no signature).
\* For charge.success the handler sends the users update; reading
\* data.metadata or metadata.userId of a payload without them throws.
WebhookStart(s, event) ==
  /\ Free(s)
  /\ LET r == [IdleRequest EXCEPT !.op = "webhook", !.event = event.event,
                                  !.data = event.data,
                                  !.reference = event.data.reference,
                                  !.during = InFlight]
     IN  req' = [req EXCEPT ![s] =
           IF event.event /= "charge.success" THEN Respond(r, 200, "OK")
           ELSE IF ~event.data.present \/ ~event.data.metadata.present
                THEN Respond(r, 500, "Error")
           ELSE [r EXCEPT !.pc = "update"]]
  /\ UNCHANGED <<users, subscriptions, paystack, clock>>

\* The webhook path giving every plan a period of one month.
WebhookUpdate_AlwaysMonthly(s, ok) ==
  /\ req[s].op = "webhook" /\ req[s].pc = "update"
  /\ LET r == req[s]
         id == r.data.metadata.userId
         plan == r.data.metadata.plan
         r1 == [r EXCEPT !.updated = ok /\ UserFound(id)]
     IN  /\ users' = IF ok THEN UpdateIsSubscribed(users, id) ELSE users
         /\ req' = [req EXCEPT ![s] =
              IF ~IsString(plan) THEN Respond(r1, 500, "Error")
              ELSE [r1 EXCEPT !.pc = "insert", !.startDate = Today,
                              !.endDate = SetMonthPlus1(Today)]]
  /\ UNCHANGED <<subscriptions, paystack, clock>>

\* The users update resolves; then the end date, and the insert is sent.
WebhookUpdate(s, ok) ==
  /\ req[s].op = "webhook" /\ req[s].pc = "update"
  /\ LET r == req[s]
         id == r.data.metadata.userId
         plan == r.data.metadata.plan
         r1 == [r EXCEPT !.updated = ok /\ UserFound(id)]
     IN  /\ users' = IF ok THEN UpdateIsSubscribed(users, id) ELSE users
         /\ req' = [req EXCEPT ![s] =
              IF ~IsString(plan) THEN Respond(r1, 500, "Error")
              ELSE [r1 EXCEPT !.pc = "insert", !.startDate = Today,
                              !.endDate = EndDate(plan, Today)]]
  /\ UNCHANGED <<subscriptions, paystack, clock>>

\* The webhook reading the insert's error and answering 500 for it.
WebhookInsert_ErrorAnswered(s, ok) ==
  /\ req[s].op = "webhook" /\ req[s].pc = "insert"
  /\ LET r == req[s]
     IN  /\ subscriptions' =
              IF ok THEN InsertSubscription(subscriptions, SubscriptionRow(r))
              ELSE subscriptions
         /\ req' = [req EXCEPT ![s] =
              IF ok THEN Respond([r EXCEPT !.inserted = ok], 200, "OK")
              ELSE Respond([r EXCEPT !.inserted = ok], 500, "Error")]
  /\ UNCHANGED <<users, paystack, clock>>

\* The subscriptions insert resolves; the handler acknowledges the event.
WebhookInsert(s, ok) ==
  /\ req[s].op = "webhook" /\ req[s].pc = "insert"
  /\ LET r == req[s]
     IN  /\ subscriptions' =
              IF ok THEN InsertSubscription(subscriptions, SubscriptionRow(r))
              ELSE subscriptions
         /\ req' = [req EXCEPT ![s] = Respond([r EXCEPT !.inserted = ok], 200, "OK")]
  /\ UNCHANGED <<users, paystack, clock>>

(***************************************************************************)
(* POST /auth/register                                                     *)
(***************************************************************************)
\* supabase.from('users').select(..).eq('email', email): the ids of the rows.
FindByEmail(email) == {i \in DOMAIN users : users[i].email = email}

\* The request arrives; the inputs are validated, and the handler awaits the
\* lookup of a user with this email.
RegisterStart(s, fullName, email, password) ==
  /\ Free(s)
  /\ LET r == [IdleRequest EXCEPT !.op = "register", !.fullName = fullName,
                                  !.email = email, !.password = password,
                                  !.during = InFlight]
     IN  req' = [req EXCEPT ![s] =
           IF ~validateFullName(fullName)
           THEN Respond(r, 400, "Full name must be at least 2 characters")
           ELSE IF ~validateEmail(email) THEN Respond(r, 400, "Invalid email address")
           ELSE IF ~validatePassword(password).valid
                THEN Respond(r, 400, validatePassword(password).message)
           ELSE [r EXCEPT !.pc = "existing"]]
  /\ UNCHANGED <<users, subscriptions, paystack, clock>>

\* The lookup resolves: .single() gives a row when exactly one matches (ok:
\* without error; the handler reads data only).  Without a row the handler
\* awaits the password hash.
RegisterExisting(s, ok) ==
  /\ req[s].op = "register" /\ req[s].pc = "existing"
  /\ LET r == req[s]
         existing == ok /\ Cardinality(FindByEmail(NormalizeEmail(r.email))) = 1
     IN  req' = [req EXCEPT ![s] =
           IF existing THEN Respond([r EXCEPT !.queried = ok], 400, "Email already registered")
           ELSE [r EXCEPT !.queried = ok, !.pc = "hash"]]
  /\ UNCHANGED <<users, subscriptions, paystack, clock>>

\* The hash resolves; the insert of the new user is sent.
RegisterHash(s) ==
  /\ req[s].op = "register" /\ req[s].pc = "hash"
  /\ req' = [req EXCEPT ![s].pc = "insert",
                        ![s].hashedPassword = BcryptHash(req[s].password)]
  /\ UNCHANGED <<users, subscriptions, paystack, clock>>

\* The row POST /auth/register inserts.
UserRow(r) ==
  [full_name |-> Trim(r.fullName), email |-> NormalizeEmail(r.email),
   password |-> r.hashedPassword, is_subscribed |-> FALSE]

\* Registration storing the new user as a subscriber.
RegisterInsert_Subscribed(s, ok) ==
  /\ req[s].op = "register" /\ req[s].pc = "insert"
  /\ LET r == req[s]
     IN  IF ok
         THEN /\ users' = Append(users, [UserRow(r) EXCEPT !.is_subscribed = TRUE])
              /\ req' = [req EXCEPT ![s] =
                   Respond([r EXCEPT !.userId = Len(users) + 1, !.inserted = TRUE],
                           201, "Registration successful")]
         ELSE /\ users' = users
              /\ req' = [req EXCEPT ![s] = Respond(r, 500, "Registration failed")]
  /\ UNCHANGED <<subscriptions, paystack, clock>>

\* The insert resolves: with the new row (ok), answered 201 with a token, or
\* with an error, answered 500.
RegisterInsert(s, ok) ==
  /\ req[s].op = "register" /\ req[s].pc = "insert"
  /\ LET r == req[s]
     IN  IF ok
         THEN /\ users' = Append(users, UserRow(r))
              /\ req' = [req EXCEPT ![s] =
                   Respond([r EXCEPT !.userId = Len(users) + 1, !.inserted = TRUE],
                           201, "Registration successful")]
         ELSE /\ users' = users
              /\ req' = [req EXCEPT ![s] = Respond(r, 500, "Registration failed")]
  /\ UNCHANGED <<subscriptions, paystack, clock>>

(***************************************************************************)
(* POST /auth/login and GET /auth/me                                       *)
(***************************************************************************)
\* The request arrives; the inputs are validated, and the handler awaits the
\* lookup of the user.
LoginStart(s, email, password) ==
  /\ Free(s)
  /\ LET r == [IdleRequest EXCEPT !.op = "login", !.email = email,
                                  !.password = password, !.during = InFlight]
     IN  req' = [req EXCEPT ![s] =
           IF ~validateEmail(email) THEN Respond(r, 400, "Invalid email address")
           ELSE IF ~Truthy(password) THEN Respond(r, 400, "Password is required")
           ELSE [r EXCEPT !.pc = "user"]]
  /\ UNCHANGED <<users, subscriptions, paystack, clock>>

\* The lookup resolves; with a row the handler awaits the password comparison.
LoginUser(s, ok) ==
  /\ req[s].op = "login" /\ req[s].pc = "user"
  /\ LET r == req[s]
         found == FindByEmail(NormalizeEmail(r.email))
     IN  req' = [req EXCEPT ![s] =
           IF ~(ok /\ Cardinality(found) = 1)
           THEN Respond(r, 401, "Invalid email or password")
           ELSE LET id == CHOOSE i \in found : TRUE
                IN  [r EXCEPT !.pc = "compare", !.userId = id,
                              !.hashedPassword = users[id].password]]
  /\ UNCHANGED <<users, subscriptions, paystack, clock>>

\* The comparison resolves; the handler answers with a token or 401.
LoginCompare(s) ==
  /\ req[s].op = "login" /\ req[s].pc = "compare"
  /\ req' = [req EXCEPT ![s] =
       IF BcryptCompare(req[s].password, req[s].hashedPassword)
       THEN Respond(req[s], 200, "Login successful")
       ELSE Respond(req[s], 401, "Invalid email or password")]
  /\ UNCHANGED <<users, subscriptions, paystack, clock>>

\* GET /auth/me arrives with a valid token for uid; the handler awaits the
\* user lookup.
MeStart(s, uid) ==
  /\ Free(s)
  /\ req' = [req EXCEPT ![s] =
       [IdleRequest EXCEPT !.op = "me", !.pc = "user", !.userId = uid,
                           !.during = InFlight]]
  /\ UNCHANGED <<users, subscriptions, paystack, clock>>

\* The lookup resolves; the handler answers with the user or 404.
MeUser(s, ok) ==
  /\ req[s].op = "me" /\ req[s].pc = "user"
  /\ req' = [req EXCEPT ![s] =
       IF ok /\ UserFound(req[s].userId) THEN Respond(req[s], 200, "")
       ELSE Respond(req[s], 404, "User not found")]
  /\ UNCHANGED <<users, subscriptions, paystack, clock>>

(***************************************************************************)
(* GET /user/profile                                                       *)
(***************************************************************************)
\* .gte on two dates: a is b or later.
DateGte(a, b) ==
  \/ a.y > b.y
  \/ a.y = b.y /\ a.m > b.m
  \/ a.y = b.y /\ a.m = b.m /\ a.d >= b.d

\* The query without its filter on end_date.
ActiveSubscriptions_AnyEndDate(table, uid, now) ==
  LET hits == {i \in DOMAIN table :
                 table[i].user_id = uid /\ table[i].status = "active"}
  IN  IF hits = {} THEN <<>>
      ELSE << table[CHOOSE i \in hits : \A j \in hits : j <= i] >>

\* from('subscriptions').select('*').eq('user_id', uid).eq('status', 'active')
\* .gte('end_date', now).order('created_at', { ascending: false }).limit(1):
\* the table holds its rows in order of creation.
ActiveSubscriptions(table, uid, now) ==
  LET hits == {i \in DOMAIN table :
                 /\ table[i].user_id = uid /\ table[i].status = "active"
                 /\ DateGte(table[i].end_date, now)}
  IN  IF hits = {} THEN <<>>
      ELSE << table[CHOOSE i \in hits : \A j \in hits : j <= i] >>

\* The request arrives with a valid token for uid; the handler awaits the
\* user lookup.
ProfileStart(s, uid) ==
  /\ Free(s)
  /\ req' = [req EXCEPT ![s] =
       [IdleRequest EXCEPT !.op = "profile", !.pc = "user", !.userId = uid,
                           !.during = InFlight]]
  /\ UNCHANGED <<users, subscriptions, paystack, clock>>

\* The lookup resolves; with a row the subscriptions query is sent, with the
\* time of sending as its bound on end_date.
ProfileUser(s, ok) ==
  /\ req[s].op = "profile" /\ req[s].pc = "user"
  /\ req' = [req EXCEPT ![s] =
       IF ok /\ UserFound(req[s].userId)
       THEN [req[s] EXCEPT !.pc = "subs", !.queryDate = Today]
       ELSE Respond(req[s], 404, "User not found")]
  /\ UNCHANGED <<users, subscriptions, paystack, clock>>

\* The query resolves (ok: with rows; else data is null, which the handler
\* answers like no row); the handler answers with the summary or null.
ProfileSubs(s, ok) ==
  /\ req[s].op = "profile" /\ req[s].pc = "subs"
  /\ LET r == req[s]
         subs == IF ok THEN ActiveSubscriptions(subscriptions, r.userId, r.queryDate)
                 ELSE <<>>
     IN  req' = [req EXCEPT ![s] =
           Respond([r EXCEPT !.queried = ok,
                             !.subscription =
                               IF Len(subs) > 0
                               THEN [present |-> TRUE, plan |-> subs[1].plan,
                                     status |-> subs[1].status,
                                     endDate |-> subs[1].end_date]
                               ELSE NoSubscription],
                   200, "")]
  /\ UNCHANGED <<users, subscriptions, paystack, clock>>

(***************************************************************************)
(* Inputs and specifications                                               *)
(***************************************************************************)
\* Payloads of charge.success events no transaction of this backend explains:
\* no data, data without metadata, metadata without a plan.
MalformedData ==
  { NoData,
    [NoData EXCEPT !.present = TRUE, !.status = "success", !.amount = 1600000],
    [NoData EXCEPT !.present = TRUE, !.status = "success", !.amount = 1600000,
                   !.metadata = [NoMetadata EXCEPT !.present = TRUE, !.userId = 1]] }

\* The bodies posted to the webhook: an event of either type about any
\* transaction of the gateway, whatever its status; an event of another type
\* without data; and the malformed charge.success events.
WebhookEvents ==
  {[event |-> e, data |-> GatewayData(ref)] :
      e \in {"charge.success", "transfer.success"}, ref \in DOMAIN paystack}
  \cup {[event |-> "transfer.success", data |-> NoData]}
  \cup {[event |-> "charge.success", data |-> d] : d \in MalformedData}

Next ==
  \/ \E ref \in DOMAIN paystack, outcome \in {"success", "failed"} : PaystackCharge(ref, outcome)
  \/ \E s \in Slots, ref \in DOMAIN paystack : VerifyStart(s, ref)
  \/ \E s \in Slots, ok \in BOOLEAN : VerifyPaystack(s, ok)
  \/ \E s \in Slots, ok \in BOOLEAN : VerifyUpdate(s, ok)
  \/ \E s \in Slots, ok \in BOOLEAN : VerifyInsert(s, ok)
  \/ \E s \in Slots, event \in WebhookEvents : WebhookStart(s, event)
  \/ \E s \in Slots, ok \in BOOLEAN : WebhookUpdate(s, ok)
  \/ \E s \in Slots, ok \in BOOLEAN : WebhookInsert(s, ok)
  \/ Tick

\* The reconciliation engine: verify and webhook requests, in any interleaving,
\* about the transactions the gateway holds.
Spec == Init /\ [][Next]_vars

\* The plan ids posted to /payment/initialize in the pricing model: the four
\* catalog ids, each also with the _discounted suffix; ids outside the catalog
\* (unknown, empty, suffixed twice); names of Object.prototype; an id with
\* _discounted inside it; and a body without a plan.
PlanInputs ==
  { standard_monthly, standard_yearly, pro_monthly, pro_yearly,
    standard_monthly \o DiscountedSuffix, standard_yearly \o DiscountedSuffix,
    pro_monthly \o DiscountedSuffix, pro_yearly \o DiscountedSuffix,
    <<"b","a","s","i","c","_","m","o","n","t","h","l","y">>,
    <<>>,
    pro_monthly \o DiscountedSuffix \o DiscountedSuffix,
    <<"c","o","n","s","t","r","u","c","t","o","r">>,
    <<"_","_","p","r","o","t","o","_","_">>,
    <<"s","t","a","n","d","a","r","d","_","y","e","a","r","_","d","i","s","c","o","u","n","t","e","d","l","y">>,
    Undefined }

\* The discount codes posted with them: none, empty, the four catalog codes,
\* catalog codes in lower and mixed case, an unknown code, a name of
\* Object.prototype.
CodeInputs ==
  { Undefined, <<>>, Code_DX9Q, Code_R5TQ, Code_MP8A, Code_K2Z9,
    <<"d","x","9","q","-","7","m","2","a","-","k","8","p","4">>,
    <<"M","p","8","a","-","q","X","4","7","-","l","9","t","z">>,
    <<"S","A","V","E","-","5","0">>,
    <<"c","o","n","s","t","r","u","c","t","o","r">> }

NextPricing ==
  \/ \E plan \in PlanInputs, code \in CodeInputs : InitializeStart(1, 1, plan, code)
  \/ \E ok \in BOOLEAN : InitializeUser(1, ok)
  \/ \E ok \in BOOLEAN : InitializePaystack(1, ok)

\* One /payment/initialize request of a registered user, over every plan id
\* and discount code of PlanInputs and CodeInputs.
SpecPricing == Init /\ [][NextPricing]_vars

(***************************************************************************)
(* The service with a history: one request of any kind, arriving at a      *)
(* store that earlier purchases have filled                                *)
(***************************************************************************)
\* A user id no row of the users table has.
UnregisteredId == Len(RegisteredUsers) + 1

\* The row a reconciliation on day start stored for a purchase of plan by uid
\* with discountCode, paid under gateway reference ref.
StoredRow(uid, plan, discountCode, ref, start) ==
  [user_id |-> uid, plan |-> plan,
   amount |-> Pricing(plan, discountCode).amount,
   reference |-> ref,
   discount_code |-> Pricing(plan, discountCode).appliedDiscount,
   status |-> "active", start_date |-> start, end_date |-> EndDate(plan, start)]

\* Subscriptions of earlier purchases (their gateway references lie before
\* the transactions the model's requests ask about): a monthly one of user 1
\* that has run out, a monthly one of user 1 that ends on the last day of the
\* calendar, a yearly one of user 1 that ends between the calendar's days, and
\* a yearly one of user 2.
StoredRows ==
  << StoredRow(1, standard_monthly, Code_DX9Q, 101, [y |-> 2023, m |-> 12, d |-> 15]),
     StoredRow(1, pro_monthly, Undefined, 102, [y |-> 2024, m |-> 1, d |-> 29]),
     StoredRow(1, standard_yearly, Undefined, 103, [y |-> 2023, m |-> 2, d |-> 28]),
     StoredRow(2, pro_yearly, Code_K2Z9, 104, [y |-> 2024, m |-> 1, d |-> 31]) >>

\* The subscriptions table as a request may find it: none, one or two of
\* these rows, in order of creation.
StoredTables ==
  { <<>>,
    <<StoredRows[1]>>, <<StoredRows[2]>>, <<StoredRows[3]>>, <<StoredRows[4]>>,
    <<StoredRows[1], StoredRows[3]>>,
    <<StoredRows[3], StoredRows[2]>>, <<StoredRows[2], StoredRows[3]>>,
    <<StoredRows[3], StoredRows[4]>> }

\* The users table as a request may find it: the registered users, each
\* flagged or not.
StoredUsers ==
  {[i \in DOMAIN RegisteredUsers |->
      [RegisteredUsers[i] EXCEPT !.is_subscribed = flags[i]]] :
     flags \in [DOMAIN RegisteredUsers -> BOOLEAN]}

\* The purchases the gateway holds: the open one of Purchases, and a monthly
\* plan without a discount code that user 2 has paid.
ServicePurchases == Purchases \o << <<2, standard_monthly, Undefined>> >>

InitService ==
  /\ users \in StoredUsers
  /\ subscriptions \in StoredTables
  /\ paystack =
       [i \in DOMAIN ServicePurchases |->
          LET uid == ServicePurchases[i][1]
              plan == ServicePurchases[i][2]
              p == Pricing(plan, ServicePurchases[i][3])
          IN  [NewTransaction(p.amount, IntentMetadata(uid, plan, p)) EXCEPT
                 !.status = IF i \in DOMAIN Purchases THEN "pending" ELSE "success"]]
  /\ clock = 1
  /\ req = [s \in Slots |-> IdleRequest]

\* Tokens are held by the registered users and by an account that is gone.
TokenIds == 1..UnregisteredId

\* Names: a valid one, and one of a single letter between blanks.
NameInputs == { <<"C","y">>, <<" ","C"," ">> }

\* Emails: a registered one typed in upper case, a new one, one with a
\* leading blank, none.
EmailInputs ==
  { <<"A","D","A","@","x",".","i","o">>, <<"c","y","@","x",".","i","o">>,
    <<" ","c","y","@","x",".","i","o">>, Undefined }

\* Passwords: the one of user 1, another valid one, one without a digit, none.
PasswordInputs ==
  { <<"a","d","a","s","-","p","a","s","s","-","0","1">>,
    <<"c","y","s","-","p","a","s","s","-","0","0","3">>,
    <<"a","b","c","d","e","f","g","h","i","j","k","l">>,
    <<>> }

\* charge.success events about a transaction of the gateway whose metadata
\* names a user the users table does not hold.
UnknownUserEvents ==
  {[event |-> "charge.success",
    data |-> [GatewayData(ref) EXCEPT !.metadata.userId = UnregisteredId]] :
      ref \in DOMAIN paystack}

NextService ==
  \/ \E ref \in DOMAIN paystack, outcome \in {"success", "failed"} : PaystackCharge(ref, outcome)
  \/ Tick
  \/ \E fullName \in NameInputs, email \in EmailInputs, password \in PasswordInputs :
       RegisterStart(1, fullName, email, password)
  \/ \E ok \in BOOLEAN : RegisterExisting(1, ok)
  \/ RegisterHash(1)
  \/ \E ok \in BOOLEAN : RegisterInsert(1, ok)
  \/ \E email \in EmailInputs, password \in PasswordInputs : LoginStart(1, email, password)
  \/ \E ok \in BOOLEAN : LoginUser(1, ok)
  \/ LoginCompare(1)
  \/ \E uid \in TokenIds : MeStart(1, uid)
  \/ \E ok \in BOOLEAN : MeUser(1, ok)
  \/ \E uid \in TokenIds : ProfileStart(1, uid)
  \/ \E ok \in BOOLEAN : ProfileUser(1, ok)
  \/ \E ok \in BOOLEAN : ProfileSubs(1, ok)
  \/ \E uid \in TokenIds, plan \in {pro_monthly, <<>>} :
       InitializeStart(1, uid, plan, Code_MP8A)
  \/ \E ok \in BOOLEAN : InitializeUser(1, ok)
  \/ \E ok \in BOOLEAN : InitializePaystack(1, ok)
  \/ \E ref \in DOMAIN paystack : VerifyStart(1, ref)
  \/ \E ok \in BOOLEAN : VerifyPaystack(1, ok)
  \/ \E ok \in BOOLEAN : VerifyUpdate(1, ok)
  \/ \E ok \in BOOLEAN : VerifyInsert(1, ok)
  \/ \E event \in WebhookEvents \cup UnknownUserEvents : WebhookStart(1, event)
  \/ \E ok \in BOOLEAN : WebhookUpdate(1, ok)
  \/ \E ok \in BOOLEAN : WebhookInsert(1, ok)

\* One request of any endpoint, arriving on either day of the calendar at a
\* store that holds the registered users and subscriptions of earlier
\* purchases, while the gateway settles the open transactions.
SpecService == InitService /\ [][NextService]_vars

\* The emails posted to /auth/register in the registration model: a new
\* one, the same in upper case, and a registered one in upper case.
RegistrationEmails ==
  { <<"c","y","@","x",".","i","o">>, <<"C","Y","@","X",".","I","O">>,
    <<"A","D","A","@","x",".","i","o">> }

NextRegistration ==
  \/ \E s \in Slots, email \in RegistrationEmails :
       RegisterStart(s, <<"C","y">>, email, <<"c","y","s","-","p","a","s","s","-","0","0","3">>)
  \/ \E s \in Slots, ok \in BOOLEAN : RegisterExisting(s, ok)
  \/ \E s \in Slots : RegisterHash(s)
  \/ \E s \in Slots, ok \in BOOLEAN : RegisterInsert(s, ok)

\* Registration requests with valid inputs, in any interleaving.
SpecRegistration == Init /\ [][NextRegistration]_vars

\* The gateway before any purchase: no transaction.
InitPurchase ==
  /\ users = RegisteredUsers
  /\ subscriptions = <<>>
  /\ paystack = <<>>
  /\ clock = 1
  /\ req = [s \in Slots |-> IdleRequest]

\* What user 1 buys in the purchase model: a yearly plan, or a monthly plan
\* under its _discounted id, with a standard code or a pro code typed in
\* mixed case (each applies to one of the plans and not to the other).
PurchasePlans == {standard_yearly, pro_monthly \o DiscountedSuffix}
PurchaseCodes ==
  { Code_DX9Q, <<"M","p","8","a","-","q","X","4","7","-","l","9","t","z">> }

NextPurchase ==
  \/ \E s \in Slots, plan \in PurchasePlans, code \in PurchaseCodes :
       InitializeStart(s, 1, plan, code)
  \/ \E s \in Slots, ok \in BOOLEAN : InitializeUser(s, ok)
  \/ \E s \in Slots, ok \in BOOLEAN : InitializePaystack(s, ok)
  \/ \E ref \in DOMAIN paystack, outcome \in {"success", "failed"} : PaystackCharge(ref, outcome)
  \/ \E s \in Slots, ref \in DOMAIN paystack : VerifyStart(s, ref)
  \/ \E s \in Slots, ok \in BOOLEAN : VerifyPaystack(s, ok)
  \/ \E s \in Slots, ok \in BOOLEAN : VerifyUpdate(s, ok)
  \/ \E s \in Slots, ok \in BOOLEAN : VerifyInsert(s, ok)
  \/ \E s \in Slots, ref \in DOMAIN paystack :
       WebhookStart(s, [event |-> "charge.success", data |-> GatewayData(ref)])
  \/ \E s \in Slots, ok \in BOOLEAN : WebhookUpdate(s, ok)
  \/ \E s \in Slots, ok \in BOOLEAN : WebhookInsert(s, ok)

\* A purchase from its start: payment initialization opens the transaction,
\* the gateway settles it, and verify or the webhook reconciles the record
\* the gateway holds.
SpecPurchase == InitPurchase /\ [][NextPurchase]_vars

(***************************************************************************)
(* What the pricing claims expect, written out from the catalog tables     *)
(* (lines 28-41) independently of the operators above                      *)
(***************************************************************************)
\* The plan ids of the catalog, plain and with the discount-request suffix:
\* tier, base price, and the price under a discount code of that tier (the
\* monthly override, or round(override x 10.8) for a yearly plan).
ExpectedPlans ==
  { [plan |-> standard_monthly, tier |-> "standard", base |-> 1600000, discounted |-> 700000],
    [plan |-> standard_yearly, tier |-> "standard", base |-> 17280000, discounted |-> 7560000],
    [plan |-> pro_monthly, tier |-> "pro", base |-> 2200000, discounted |-> 1100000],
    [plan |-> pro_yearly, tier |-> "pro", base |-> 23760000, discounted |-> 11880000],
    [plan |-> standard_monthly \o DiscountedSuffix, tier |-> "standard",
     base |-> 1600000, discounted |-> 700000],
    [plan |-> standard_yearly \o DiscountedSuffix, tier |-> "standard",
     base |-> 17280000, discounted |-> 7560000],
    [plan |-> pro_monthly \o DiscountedSuffix, tier |-> "pro",
     base |-> 2200000, discounted |-> 1100000],
    [plan |-> pro_yearly \o DiscountedSuffix, tier |-> "pro",
     base |-> 23760000, discounted |-> 11880000] }

\* The discount code inputs that name a catalog code, in any case: the tier
\* the code is restricted to and the code as the catalog spells it.
ExpectedCodes ==
  { [input |-> Code_DX9Q, tier |-> "standard", code |-> Code_DX9Q],
    [input |-> Code_R5TQ, tier |-> "standard", code |-> Code_R5TQ],
    [input |-> Code_MP8A, tier |-> "pro", code |-> Code_MP8A],
    [input |-> Code_K2Z9, tier |-> "pro", code |-> Code_K2Z9],
    [input |-> <<"d","x","9","q","-","7","m","2","a","-","k","8","p","4">>, tier |-> "standard", code |-> Code_DX9Q],
    [input |-> <<"M","p","8","a","-","q","X","4","7","-","l","9","t","z">>, tier |-> "pro", code |-> Code_MP8A] }

\* The request in slot s is an initialize request that has priced its plan
\* and sent the gateway request (req[s].data holds what it sent).
Priced(s) == req[s].op = "initialize" /\ req[s].called

\* C3: for every catalog plan id and every discount code input that is absent,
\* unknown, or a catalog code of the other tier, the charge sent to the gateway
\* is the base price: finalAmount = originalAmount = basePrice(plan), and
\* appliedDiscountCode = null.
C3_NoDiscountOffTier ==
  \A s \in Slots, e \in ExpectedPlans :
    ( /\ Priced(s)
      /\ req[s].plan = e.plan
      /\ ~\E c \in ExpectedCodes : c.input = req[s].discountCode /\ c.tier = e.tier )
    => /\ req[s].data.amount = e.base
       /\ req[s].data.metadata.finalAmount = e.base
       /\ req[s].data.metadata.originalAmount = e.base
       /\ req[s].data.metadata.discountCode = Null

\* C3's case: a pro-tier code on a standard plan, and an unknown code on a pro
\* plan, have been priced.
C3_Witness ==
  /\ req[1].pc = "done" /\ Priced(1) /\ req[1].res.status = 200
  /\ req[1].plan = standard_monthly /\ req[1].discountCode = Code_MP8A
  /\ req[1].data.amount = 1600000

\* C4: a catalog discount code, in any case, on a plan of its tier: finalAmount
\* is the monthly override for a monthly plan and round(override x 10.8) for a
\* yearly plan (standard 700,000 and 7,560,000; pro 1,100,000 and 11,880,000),
\* originalAmount stays the base price, and appliedDiscountCode is the code in
\* upper case.
C4_DiscountOnTier ==
  \A s \in Slots, e \in ExpectedPlans, c \in ExpectedCodes :
    ( /\ Priced(s)
      /\ req[s].plan = e.plan
      /\ req[s].discountCode = c.input
      /\ c.tier = e.tier )
    => /\ req[s].data.amount = e.discounted
       /\ req[s].data.metadata.finalAmount = e.discounted
       /\ req[s].data.metadata.originalAmount = e.base
       /\ req[s].data.metadata.discountCode = c.code

\* C4's case: a standard code typed in lower case on the yearly standard plan
\* has been priced at 7,560,000.
C4_Witness ==
  /\ req[1].pc = "done" /\ Priced(1) /\ req[1].res.status = 200
  /\ req[1].plan = standard_yearly
  /\ req[1].discountCode = <<"d","x","9","q","-","7","m","2","a","-","k","8","p","4">>
  /\ req[1].data.amount = 7560000
  /\ req[1].data.metadata.discountCode = Code_DX9Q

\* The plan ids whose key, with _discounted taken out, is a catalog plan.
PlansWithCatalogKey ==
  {e.plan : e \in ExpectedPlans} \cup { <<"s","t","a","n","d","a","r","d","_","y","e","a","r","_","d","i","s","c","o","u","n","t","e","d","l","y">> }

\* C5: for a plan id whose canonical key is not one of the four catalog plans,
\* initialization makes no gateway call and (the user found) answers 400
\* 'Invalid plan'; and no gateway call is made when the user lookup fails.
C5_UnknownPlanRejected ==
  \A s \in Slots :
    req[s].op = "initialize" =>
      /\ (IsString(req[s].plan) /\ req[s].plan \notin PlansWithCatalogKey)
           => /\ ~req[s].called
              /\ req[s].pc = "done" =>
                   \/ req[s].res = [status |-> 400, message |-> "Invalid plan"]
                   \/ req[s].res = [status |-> 404, message |-> "User not found"]
      /\ req[s].res.status = 404 => ~req[s].called

(***************************************************************************)
(* Reconciliation claims                                                   *)
(***************************************************************************)
\* The rows of the subscriptions table that carry gateway reference ref.
RowsFor(ref) == {i \in DOMAIN subscriptions : subscriptions[i].reference = ref}

\* Slot s holds a verify or webhook request.
Reconciling(s) == req[s].op \in {"verify", "webhook"}

\* Slot s holds a finished reconciliation of a gateway record with status
\* success: the user's flag was set and the request was answered 200.
Reconciled(s) ==
  /\ Reconciling(s) /\ req[s].pc = "done"
  /\ req[s].event \in {"", "charge.success"}
  /\ req[s].data.present /\ req[s].data.status = "success"
  /\ req[s].updated
  /\ req[s].res.status = 200

\* Requests s and t were in flight at the same time.
Overlapped(s, t) == s \in req[t].during \/ t \in req[s].during

\* C1: after completed verify and webhook calls, one after the other, the
\* store holds at most one Subscription record per gateway reference: a second
\* reconciliation of the same successful reference adds none.
C1_OneSubscriptionPerReference ==
  \A s, t \in Slots :
    ( /\ s /= t /\ ~Overlapped(s, t)
      /\ Reconciled(s) /\ Reconciled(t)
      /\ req[s].reference = req[t].reference )
    => Cardinality(RowsFor(req[s].reference)) <= 1

\* C2: two reconciliations of the same reference that ran concurrently leave,
\* once both have finished and the store took an insert, exactly one
\* Subscription record for that reference.
C2_ConcurrentReconciliationStoresOne ==
  \A s, t \in Slots :
    ( /\ s /= t /\ Overlapped(s, t)
      /\ Reconciled(s) /\ Reconciled(t)
      /\ req[s].reference = req[t].reference
      /\ req[s].inserted \/ req[t].inserted )
    => Cardinality(RowsFor(req[s].reference)) = 1

\* C6: a store write (the isSubscribed update, the Subscription insert) is made
\* only from a gateway record whose status is success, on either path.
C6_WritesOnlyOnSuccess ==
  \A s \in Slots :
    (Reconciling(s) /\ (req[s].updated \/ req[s].inserted))
      => req[s].data.status = "success"

\* C7: when the gateway's verify reports a status other than success, the
\* verify path answers 400 'Payment verification failed', and no step of that
\* request (its arrival, the gateway's answer) changes the users or the
\* subscriptions table.
C7_VerifyNonSuccessMutatesNothing ==
  [][ \A s \in Slots :
        ( /\ req'[s] /= req[s]
          /\ req'[s].op = "verify"
          /\ req'[s].data.status /= "success" )
        => /\ users' = users
           /\ subscriptions' = subscriptions
           /\ req'[s].data.present =>
                /\ req'[s].pc = "done"
                /\ req'[s].res = [status |-> 400,
                                  message |-> "Payment verification failed"] ]_vars

\* C7's case: a verify request was answered for a transaction the gateway
\* reported as failed.
C7_Witness ==
  \E s \in Slots :
    /\ req[s].op = "verify" /\ req[s].pc = "done"
    /\ req[s].data.present /\ req[s].data.status = "failed"
    /\ req[s].res.status = 400

\* C8: a webhook event whose type is not charge.success is answered 200 'OK'
\* at once, and the users and the subscriptions table stay as they were.
C8_OtherEventMutatesNothing ==
  [][ \A s \in Slots :
        ( /\ req'[s] /= req[s]
          /\ req'[s].op = "webhook"
          /\ req'[s].event /= "charge.success" )
        => /\ req'[s].pc = "done"
           /\ req'[s].res = [status |-> 200, message |-> "OK"]
           /\ users' = users
           /\ subscriptions' = subscriptions ]_vars

\* C8's case: an event of another type, carrying the data of a successful
\* transaction, was acknowledged.
C8_Witness ==
  \E s \in Slots :
    /\ req[s].op = "webhook" /\ req[s].pc = "done"
    /\ req[s].event = "transfer.success"
    /\ req[s].data.present /\ req[s].data.status = "success"
    /\ req[s].res.status = 200

\* C9: no partial mutation: a finished reconciliation of a successful,
\* well-formed gateway record that set isSubscribed also stored its
\* Subscription record (a failed store write leaves neither write applied).
C9_NoPartialMutation ==
  \A s \in Slots :
    ( /\ Reconciling(s) /\ req[s].pc = "done"
      /\ req[s].data.status = "success"
      /\ IsString(req[s].data.metadata.plan)
      /\ req[s].updated )
    => req[s].inserted

\* C10 as stated: the webhook endpoint answers every event with 200 'OK'.
C10_WebhookAlwaysAcknowledges ==
  \A s \in Slots :
    (req[s].op = "webhook" /\ req[s].pc = "done")
      => req[s].res = [status |-> 200, message |-> "OK"]

\* Handling the event in slot s throws: a charge.success payload without data,
\* without data.metadata, or without a string metadata.plan.
MalformedChargeSuccess(s) ==
  /\ req[s].event = "charge.success"
  /\ \/ ~req[s].data.present
     \/ ~req[s].data.metadata.present
     \/ ~IsString(req[s].data.metadata.plan)

\* C10 amended: the webhook endpoint answers 200 'OK' unless handling the event
\* throws, also when a store write comes back with an error; a charge.success
\* payload without data, metadata or plan is answered 500 'Error'.
C10_WebhookAcknowledgesUnlessThrown ==
  \A s \in Slots :
    (req[s].op = "webhook" /\ req[s].pc = "done")
      => req[s].res = IF MalformedChargeSuccess(s)
                      THEN [status |-> 500, message |-> "Error"]
                      ELSE [status |-> 200, message |-> "OK"]

\* C10's case: a charge.success event was acknowledged although the store
\* refused the Subscription insert.
C10_Witness ==
  \E s \in Slots :
    /\ req[s].op = "webhook" /\ req[s].pc = "done"
    /\ req[s].event = "charge.success" /\ ~MalformedChargeSuccess(s)
    /\ ~req[s].inserted
    /\ req[s].res = [status |-> 200, message |-> "OK"]

(***************************************************************************)
(* The two reconciliation paths compared                                   *)
(***************************************************************************)
\* C11: the same successful gateway record, reconciled by the verify path and
\* by the webhook path on the same day, gives the same state: the user of its
\* metadata is flagged subscribed, and the Subscription rows stored for its
\* reference on that day are equal in every column (user, plan, amount,
\* reference, discount code, status, start and end of the period).
C11_PathsAgree ==
  \A s, t \in Slots :
    ( /\ req[s].op = "verify" /\ req[t].op = "webhook"
      /\ Reconciled(s) /\ Reconciled(t)
      /\ req[s].inserted /\ req[t].inserted
      /\ req[s].reference = req[t].reference
      /\ req[s].startDate = req[t].startDate )
    => /\ req[s].data.metadata.userId = req[t].data.metadata.userId
       /\ users[req[s].data.metadata.userId].is_subscribed
       /\ \E i \in RowsFor(req[s].reference) :
            subscriptions[i].start_date = req[s].startDate
       /\ \A i, j \in RowsFor(req[s].reference) :
            subscriptions[i].start_date = subscriptions[j].start_date
              => subscriptions[i] = subscriptions[j]

\* C11's case: a verify request and a webhook delivery have both reconciled
\* the same reference on the same day, and the store took both inserts.
C11_Witness ==
  \E s, t \in Slots :
    /\ req[s].op = "verify" /\ req[t].op = "webhook"
    /\ Reconciled(s) /\ Reconciled(t)
    /\ req[s].inserted /\ req[t].inserted
    /\ req[s].reference = req[t].reference
    /\ req[s].startDate = req[t].startDate
    /\ Cardinality(RowsFor(req[s].reference)) >= 2

(***************************************************************************)
(* The subscription period                                                 *)
(***************************************************************************)
\* The catalog's plans with a yearly interval.
YearlyPlanIds == {standard_yearly, pro_yearly}

\* C12 as stated: a Subscription of a yearly plan ends on a date of the next
\* year; one of any other plan ends in the calendar month after the month of
\* its start, on the day of its start or, where that month is shorter, on its
\* last day (a monthly plan started on Jan 31 ends in February, not in March).
C12_MonthlyPeriodEndsNextMonth ==
  \A i \in DOMAIN subscriptions :
    LET row == subscriptions[i]
        start == row.start_date
        end == row.end_date
    IN  IF row.plan \in YearlyPlanIds
        THEN end.y = start.y + 1 /\ end.m \in 1..12 /\ end.d >= 1
        ELSE /\ end.y = IF start.m = 12 THEN start.y + 1 ELSE start.y
             /\ end.m = IF start.m = 12 THEN 1 ELSE start.m + 1
             /\ end.d <= start.d

\* Start and end of the periods of the model's subscriptions, written out by
\* hand: year or month plus one, a day the month lacks carried into the next.
ExpectedPeriods ==
  { [start |-> [y |-> 2023, m |-> 12, d |-> 15], yearly |-> FALSE,
     end |-> [y |-> 2024, m |-> 1, d |-> 15]],
    [start |-> [y |-> 2024, m |-> 1, d |-> 29], yearly |-> FALSE,
     end |-> [y |-> 2024, m |-> 2, d |-> 29]],
    [start |-> [y |-> 2023, m |-> 2, d |-> 28], yearly |-> TRUE,
     end |-> [y |-> 2024, m |-> 2, d |-> 28]],
    [start |-> [y |-> 2024, m |-> 1, d |-> 31], yearly |-> FALSE,
     end |-> [y |-> 2024, m |-> 3, d |-> 2]],
    [start |-> [y |-> 2024, m |-> 1, d |-> 31], yearly |-> TRUE,
     end |-> [y |-> 2025, m |-> 1, d |-> 31]],
    [start |-> [y |-> 2024, m |-> 2, d |-> 29], yearly |-> FALSE,
     end |-> [y |-> 2024, m |-> 3, d |-> 29]],
    [start |-> [y |-> 2024, m |-> 2, d |-> 29], yearly |-> TRUE,
     end |-> [y |-> 2025, m |-> 3, d |-> 1]] }

\* C12 amended: the period of every Subscription ends on its start date with
\* the year (yearly plans) or the month (other plans) raised by one, a day the
\* target month does not have being carried into the month after it: a
\* monthly plan started on 2024-01-31 ends on 2024-03-02, a yearly plan
\* started on 2024-02-29 ends on 2025-03-01.
C12_PeriodEndsByDateOverflow ==
  \A i \in DOMAIN subscriptions :
    \E e \in ExpectedPeriods :
      /\ e.start = subscriptions[i].start_date
      /\ e.yearly = (subscriptions[i].plan \in YearlyPlanIds)
      /\ e.end = subscriptions[i].end_date

\* C12's case: a request has stored the Subscription of a monthly plan on
\* January 31.
C12_Witness ==
  /\ req[1].pc = "done" /\ Reconciling(1) /\ req[1].inserted
  /\ req[1].startDate = [y |-> 2024, m |-> 1, d |-> 31]
  /\ req[1].data.metadata.plan = standard_monthly
  /\ subscriptions[Len(subscriptions)].start_date = [y |-> 2024, m |-> 1, d |-> 31]
  /\ subscriptions[Len(subscriptions)].plan = standard_monthly
  /\ subscriptions[Len(subscriptions)].end_date.m = 3

(***************************************************************************)
(* The Subscription Projector                                              *)
(***************************************************************************)
\* A date as one number, year first.
DayNumber(t) == t.y * 10000 + t.m * 100 + t.d

\* The Subscription records of user uid that are active and have not ended
\* before the day now.
Entitling(uid, now) ==
  {i \in DOMAIN subscriptions :
     /\ subscriptions[i].user_id = uid
     /\ subscriptions[i].status = "active"
     /\ DayNumber(subscriptions[i].end_date) >= DayNumber(now)}

\* What the Projector is to answer for user uid on day now: plan, status and
\* end date of the record created last among the entitling ones, null if none.
ExpectedSummary(uid, now) ==
  IF Entitling(uid, now) = {} THEN NoSubscription
  ELSE LET i == CHOOSE k \in Entitling(uid, now) : \A j \in Entitling(uid, now) : j <= k
       IN  [present |-> TRUE, plan |-> subscriptions[i].plan,
            status |-> subscriptions[i].status, endDate |-> subscriptions[i].end_date]

C14_OnlyReconciliationWrites ==
  [][ /\ ( \/ subscriptions' /= subscriptions
           \/ \E i \in DOMAIN users : users'[i].is_subscribed /= users[i].is_subscribed )
         => \E s \in Slots :
              /\ Reconciling(s) /\ req[s].pc \in {"update", "insert"}
              /\ req'[s] /= req[s]
              /\ req[s].op = "verify" => req[s].data.status = "success"
              /\ req[s].op = "webhook" => req[s].event = "charge.success"
      /\ \A s \in Slots :
           ( /\ req'[s] /= req[s]
             /\ req'[s].op \in {"register", "login", "me", "initialize", "profile"} )
           => /\ subscriptions' = subscriptions
              /\ \A i \in DOMAIN users : users'[i] = users[i]
              /\ \A i \in (DOMAIN users') \ (DOMAIN users) :
                   /\ ~users'[i].is_subscribed
                   /\ req'[s].op = "register" /\ req'[s].res.status = 201 ]_vars

\* C14's case: a payment initialization has been answered after the gateway
\* refused it, at a store that holds a subscribed user and two Subscription
\* records.
C14_Witness ==
  /\ req[1].op = "initialize" /\ req[1].pc = "done"
  /\ req[1].called /\ req[1].res.status = 500
  /\ users[1].is_subscribed /\ ~users[2].is_subscribed
  /\ Len(subscriptions) = 2

(***************************************************************************)
(* Subscriptions and their users                                           *)
(***************************************************************************)
\* C18: every Subscription record belongs to a user the users table holds
\* (who is then to be flagged isSubscribed): no verify or webhook call,
\* whatever its metadata.userId, stores a Subscription for a user that does
\* not exist.
C18_SubscriptionsBelongToUsers ==
  /\ \A i \in DOMAIN subscriptions : subscriptions[i].user_id \in DOMAIN users
  /\ \A s \in Slots :
       (Reconciling(s) /\ req[s].inserted) => UserFound(req[s].data.metadata.userId)

(***************************************************************************)
(* Registration                                                            *)
(***************************************************************************)
\* C15: of two registrations with the same email, lowercased and trimmed,
\* whose lookups the store answered, at most one has created a user, however
\* their steps interleave; so no two user records share an email.
C15_OneUserPerEmail ==
  \A s, t \in Slots :
    ( /\ s /= t
      /\ req[s].op = "register" /\ req[t].op = "register"
      /\ req[s].queried /\ req[t].queried
      /\ Trim(ToLowerCase(req[s].email)) = Trim(ToLowerCase(req[t].email)) )
    => ~(req[s].res.status = 201 /\ req[t].res.status = 201)

(***************************************************************************)
(* From the Transaction Intent to the Subscription record                  *)
(***************************************************************************)
\* The price the catalog tables give for plan id plan under discount code
\* input code, and the code recorded as applied (null when none applies).
ExpectedCharge(plan, code) ==
  LET e == CHOOSE x \in ExpectedPlans : x.plan = plan
      hits == {c \in ExpectedCodes : c.input = code /\ c.tier = e.tier}
  IN  IF hits = {} THEN [amount |-> e.base, code |-> Null]
      ELSE [amount |-> e.discounted, code |-> (CHOOSE c \in hits : TRUE).code]

\* C16: every Subscription record carries the plan and the discount code of
\* the metadata and the amount of the gateway record of its reference; and
\* for a transaction that a payment initialization opened, the stored plan is
\* the plan id posted, and the stored amount and discount code are the
\* finalAmount and the applied code that the catalog gives for the posted
\* plan and code.
C16_RecordCarriesTheIntent ==
  \A i \in DOMAIN subscriptions :
    LET row == subscriptions[i]
    IN  /\ row.reference \in DOMAIN paystack
        /\ row.plan = paystack[row.reference].metadata.plan
        /\ row.discount_code = paystack[row.reference].metadata.discountCode
        /\ row.amount = paystack[row.reference].amount
        /\ row.amount = paystack[row.reference].metadata.finalAmount
        /\ \E s \in Slots :
             /\ req[s].op = "initialize" /\ req[s].res.status = 200
             /\ req[s].reference = row.reference
             /\ row.plan = req[s].plan
             /\ row.amount = ExpectedCharge(req[s].plan, req[s].discountCode).amount
             /\ row.discount_code = ExpectedCharge(req[s].plan, req[s].discountCode).code

\* C16's case: a yearly standard plan bought with a standard code has been
\* reconciled: the record holds 7,560,000 and the code.
C16_Witness ==
  \E s \in Slots, i \in DOMAIN subscriptions :
    /\ req[s].op = "initialize" /\ req[s].res.status = 200
    /\ req[s].plan = standard_yearly /\ req[s].discountCode = Code_DX9Q
    /\ subscriptions[i].reference = req[s].reference
    /\ subscriptions[i].amount = 7560000
    /\ subscriptions[i].discount_code = Code_DX9Q

(***************************************************************************)
(* What a verified payment leaves in the store                             *)
(***************************************************************************)
\* C17: whenever the verify path has answered 200 'Payment verified' for a
\* reference, the store holds a Subscription record with that reference and
\* the user of the transaction's metadata has isSubscribed = true.
C17_VerifiedMeansStored ==
  \A s \in Slots :
    ( /\ req[s].op = "verify" /\ req[s].pc = "done"
      /\ req[s].res = [status |-> 200, message |-> "Payment verified"] )
    => /\ RowsFor(req[s].reference) /= {}
       /\ UserFound(req[s].data.metadata.userId)
       /\ users[req[s].data.metadata.userId].is_subscribed

\* C19: for every plan id of the catalog (plain or with the _discounted
\* suffix) and every discount code input, the amount sent to the gateway is
\* positive and not above the base price, and originalAmount is the base
\* price of the plan.
C19_ChargeWithinBasePrice ==
  \A s \in Slots, e \in ExpectedPlans :
    (Priced(s) /\ req[s].plan = e.plan)
    => /\ 0 < req[s].data.amount
       /\ req[s].data.amount <= e.base
       /\ req[s].data.metadata.finalAmount = req[s].data.amount
       /\ req[s].data.metadata.originalAmount = e.base

\* C19's case: a pro code on the yearly pro plan has been priced at
\* 11,880,000, below the base price 23,760,000.
C19_Witness ==
  /\ Priced(1) /\ req[1].pc = "done" /\ req[1].res.status = 200
  /\ req[1].plan = pro_yearly /\ req[1].discountCode = Code_K2Z9
  /\ req[1].data.amount = 11880000
  /\ req[1].data.metadata.originalAmount = 23760000

====
